---------------------------- MODULE Spec2Model ----------------------------
(***************************************************************************)
(* Model of the udd MQTT-over-UDP codec (src/src/mqtt.rs,                  *)
(* src/src/mqtt/impls.rs), of the datagram path around it                  *)
(* (src/src/tui.rs), of the message-id allocator (src/src/tui.rs,          *)
(* src/src/tui/parse.rs) and of the UI loop and the network thread with    *)
(* their two channels (src/src/tui.rs).                                    *)
(*                                                                         *)
(* Bytes are naturals in 0..255, a byte buffer (&[u8], Vec<u8>) is a       *)
(* sequence of bytes, and a Rust String is the sequence of its UTF-8       *)
(* bytes.  Rust offsets are 0-based: buf[i] in the source is buf[i + 1]    *)
(* here.  Option<T> is a sequence of length 0 (None) or 1 (Some).          *)
(***************************************************************************)
EXTENDS Naturals, Sequences, FiniteSets

\* the datagram path
VARIABLES frame, sent, buf, pc, via, result

\* the message-id allocator: the static counter, the outcome of the latest
\* parse_mqtt_command, and the history of the msg_ids handed out (the one
\* of the latest frame built, the greatest of the frames built before it)
VARIABLES MSG_ID_COUNTER, cmd, last_msg_id, earlier_max

codecVars == <<frame, sent, buf, pc, via, result>>

allocVars == <<MSG_ID_COUNTER, cmd, last_msg_id, earlier_max>>

\* the UI loop and the network thread: the command and the event channel,
\* each side's position, App.running and App.log, the number of Send
\* commands queued and of datagrams or receive errors reported, and the
\* history of the network thread (the Sends it took, the events it emitted
\* for them, the commands left when it last went on to receive, and why it
\* returned)
VARIABLES cmd_q, evt_q, net_pc, ui_pc, running, log, sends, recvs,
          taken, answers, pending_at_recv, net_exit

netVars == <<cmd_q, evt_q, net_pc, ui_pc, running, log, sends, recvs,
             taken, answers, pending_at_recv, net_exit>>

vars == <<frame, sent, buf, pc, via, result,
          MSG_ID_COUNTER, cmd, last_msg_id, earlier_max,
          cmd_q, evt_q, net_pc, ui_pc, running, log, sends, recvs,
          taken, answers, pending_at_recv, net_exit>>

-----------------------------------------------------------------------------
(* Bounds of the model *)

\* longest datagram assembled byte by byte on the receive path
MaxRaw == 5
\* most trailing bytes the transport appends to a sent datagram
MaxPad == 2
\* most filters of a Subscribe drawn as input
MaxFilters == 2
\* most return codes of a SubAck drawn as input
MaxCodes == 2
\* a corrupted byte lies among the first MaxTamperIdx bytes of the datagram
MaxTamperIdx == 14
\* most lines the user sends in one run of the UI
MaxSends == 2
\* most datagrams and receive errors the socket reports in one run
MaxRecvs == 1

-----------------------------------------------------------------------------
(* Result<T, DecodeError>, Option<T> and the outcomes of a call *)

Ok(v) == [kind |-> "Ok", val |-> v]

Err(e) == [kind |-> "Err", err |-> e]

\* the call aborts (a Rust panic: slice index out of order)
Panic == [kind |-> "Panic"]

None == <<>>

Some(v) == <<v>>

Opt(S) == {None} \cup {Some(v) : v \in S}

BufferTooShort(e, a) == [tag |-> "BufferTooShort", expected |-> e, actual |-> a]

InvalidMessageType(v) == [tag |-> "InvalidMessageType", value |-> v]

InvalidQoS(v) == [tag |-> "InvalidQoS", value |-> v]

InvalidReturnCode(v) == [tag |-> "InvalidReturnCode", value |-> v]

InvalidUtf8 == [tag |-> "InvalidUtf8"]

PayloadTooLarge == [tag |-> "PayloadTooLarge"]

MalformedPacket(reason) == [tag |-> "MalformedPacket", reason |-> reason]

-----------------------------------------------------------------------------
(* Integer helpers: bit tests and big-endian u16 *)

\* (b & (1 << i)) != 0
BitSet(b, i) == (b \div (2 ^ i)) % 2 = 1

\* (n as u8)
AsU8(n) == n % 256

\* (n as u16).to_be_bytes()
U16BE(n) == <<(n % 65536) \div 256, n % 256>>

\* u16::from_be_bytes([hi, lo])
FromBE(hi, lo) == hi * 256 + lo

Min(a, b) == IF a < b THEN a ELSE b

-----------------------------------------------------------------------------
(* Enumerated wire values *)

MessageTypes == {"Connect", "ConnAck", "Publish", "PubAck", "Subscribe",
                 "SubAck", "PingReq", "PingResp", "Disconnect"}

\* faulty variant: a byte past the last kind falls into the last arm
MessageType_try_from_Coerce(value) ==
    IF value = 0 THEN Err(InvalidMessageType(value))
    ELSE IF value = 1 THEN Ok("Connect")
    ELSE IF value = 2 THEN Ok("ConnAck")
    ELSE IF value = 3 THEN Ok("Publish")
    ELSE IF value = 4 THEN Ok("PubAck")
    ELSE IF value = 5 THEN Ok("Subscribe")
    ELSE IF value = 6 THEN Ok("SubAck")
    ELSE IF value = 7 THEN Ok("PingReq")
    ELSE IF value = 8 THEN Ok("PingResp")
    ELSE Ok("Disconnect")

MessageType_try_from(value) ==
    IF value = 1 THEN Ok("Connect")
    ELSE IF value = 2 THEN Ok("ConnAck")
    ELSE IF value = 3 THEN Ok("Publish")
    ELSE IF value = 4 THEN Ok("PubAck")
    ELSE IF value = 5 THEN Ok("Subscribe")
    ELSE IF value = 6 THEN Ok("SubAck")
    ELSE IF value = 7 THEN Ok("PingReq")
    ELSE IF value = 8 THEN Ok("PingResp")
    ELSE IF value = 9 THEN Ok("Disconnect")
    ELSE Err(InvalidMessageType(value))

\* faulty variant: the bytes of PingReq and PingResp are exchanged
MessageType_into_u8_PingSwapped(t) ==
    CASE t = "Connect" -> 1
      [] t = "ConnAck" -> 2
      [] t = "Publish" -> 3
      [] t = "PubAck" -> 4
      [] t = "Subscribe" -> 5
      [] t = "SubAck" -> 6
      [] t = "PingReq" -> 8
      [] t = "PingResp" -> 7
      [] t = "Disconnect" -> 9

MessageType_into_u8(t) ==
    CASE t = "Connect" -> 1
      [] t = "ConnAck" -> 2
      [] t = "Publish" -> 3
      [] t = "PubAck" -> 4
      [] t = "Subscribe" -> 5
      [] t = "SubAck" -> 6
      [] t = "PingReq" -> 7
      [] t = "PingResp" -> 8
      [] t = "Disconnect" -> 9

QoSLevels == {"AtMostOnce", "AtLeastOnce", "ExactlyOnce"}

\* faulty variant: an unknown value falls back to the #[default] variant
QoS_try_from_Default(value) ==
    IF value = 0 THEN Ok("AtMostOnce")
    ELSE IF value = 1 THEN Ok("AtLeastOnce")
    ELSE IF value = 2 THEN Ok("ExactlyOnce")
    ELSE Ok("AtMostOnce")

\* Err carries the rejected byte itself (type Error = u8)
QoS_try_from(value) ==
    IF value = 0 THEN Ok("AtMostOnce")
    ELSE IF value = 1 THEN Ok("AtLeastOnce")
    ELSE IF value = 2 THEN Ok("ExactlyOnce")
    ELSE Err(value)

QoS_into_u8(q) ==
    CASE q = "AtMostOnce" -> 0
      [] q = "AtLeastOnce" -> 1
      [] q = "ExactlyOnce" -> 2

ConnectReturnCodes == {"Accepted", "UnacceptableProtocol", "IdentifierRejected",
                       "ServerUnavailable", "BadCredentials", "NotAuthorized"}

ConnectReturnCode_try_from(value) ==
    IF value = 0 THEN Ok("Accepted")
    ELSE IF value = 1 THEN Ok("UnacceptableProtocol")
    ELSE IF value = 2 THEN Ok("IdentifierRejected")
    ELSE IF value = 3 THEN Ok("ServerUnavailable")
    ELSE IF value = 4 THEN Ok("BadCredentials")
    ELSE IF value = 5 THEN Ok("NotAuthorized")
    ELSE Err(value)

ConnectReturnCode_into_u8(c) ==
    CASE c = "Accepted" -> 0
      [] c = "UnacceptableProtocol" -> 1
      [] c = "IdentifierRejected" -> 2
      [] c = "ServerUnavailable" -> 3
      [] c = "BadCredentials" -> 4
      [] c = "NotAuthorized" -> 5

SubAckReturnCodes == {"SuccessQoS0", "SuccessQoS1", "SuccessQoS2", "Failure"}

SubAckReturnCode_try_from(value) ==
    IF value = 0 THEN Ok("SuccessQoS0")
    ELSE IF value = 1 THEN Ok("SuccessQoS1")
    ELSE IF value = 2 THEN Ok("SuccessQoS2")
    ELSE IF value = 128 THEN Ok("Failure")
    ELSE Err(value)

SubAckReturnCode_into_u8(c) ==
    CASE c = "SuccessQoS0" -> 0
      [] c = "SuccessQoS1" -> 1
      [] c = "SuccessQoS2" -> 2
      [] c = "Failure" -> 128

-----------------------------------------------------------------------------
(* Primitive codecs *)

\* std::str::from_utf8(bytes).is_ok(): well-formed UTF-8.  A continuation
\* byte is 0x80..0xBF; every other byte leads a character.
Utf8Cont(x) == x >= 128 /\ x <= 191

\* bytes of the character a lead byte opens; 0 for a byte that opens none
\* (0xC0, 0xC1, 0xF5..0xFF)
Utf8Width(x) ==
    IF x < 128 THEN 1
    ELSE IF x >= 194 /\ x <= 223 THEN 2
    ELSE IF x >= 224 /\ x <= 239 THEN 3
    ELSE IF x >= 240 /\ x <= 244 THEN 4
    ELSE 0

\* the second byte of a character: narrowed after 0xE0, 0xED, 0xF0 and 0xF4
\* (no overlong form, no surrogate, nothing above U+10FFFF)
Utf8Second(lead, x) ==
    IF lead = 224 THEN x >= 160 /\ x <= 191
    ELSE IF lead = 237 THEN x >= 128 /\ x <= 159
    ELSE IF lead = 240 THEN x >= 144 /\ x <= 191
    ELSE IF lead = 244 THEN x >= 128 /\ x <= 143
    ELSE Utf8Cont(x)

\* a whole character starts at index i and the byte after it, if any,
\* leads the next one
Utf8CharAt(b, i) ==
    LET w == Utf8Width(b[i])
    IN  /\ w > 0
        /\ i + w - 1 <= Len(b)
        /\ w >= 2 => Utf8Second(b[i], b[i + 1])
        /\ \A k \in (i + 2)..(i + w - 1) : Utf8Cont(b[k])
        /\ i + w <= Len(b) => ~Utf8Cont(b[i + w])

IsUtf8(b) ==
    /\ Len(b) > 0 => ~Utf8Cont(b[1])
    /\ \A i \in 1..Len(b) : ~Utf8Cont(b[i]) => Utf8CharAt(b, i)

read_u16(b, offset) ==
    IF Len(b) < offset + 2
    THEN Err(BufferTooShort(offset + 2, Len(b)))
    ELSE Ok(FromBE(b[offset + 1], b[offset + 2]))

\* faulty variant: a string that ends exactly at the end of the buffer is
\* taken as running past it
read_string_OffByOne(b, offset) ==
    LET r == read_u16(b, offset)
    IN  IF r.kind # "Ok" THEN r
        ELSE LET len == r.val
                 end == offset + 2 + len
             IN  IF Len(b) <= end
                 THEN Err(BufferTooShort(end, Len(b)))
                 ELSE LET s == SubSeq(b, offset + 3, end)
                      IN  IF IsUtf8(s) THEN Ok(<<s, end>>) ELSE Err(InvalidUtf8)

\* Ok carries <<string, next offset>>
read_string(b, offset) ==
    LET r == read_u16(b, offset)
    IN  IF r.kind # "Ok" THEN r
        ELSE LET len == r.val
                 end == offset + 2 + len
             IN  IF Len(b) < end
                 THEN Err(BufferTooShort(end, Len(b)))
                 ELSE LET s == SubSeq(b, offset + 3, end)
                      IN  IF IsUtf8(s) THEN Ok(<<s, end>>) ELSE Err(InvalidUtf8)

write_string(b, s) == b \o U16BE(Len(s)) \o s

-----------------------------------------------------------------------------
(* Packets: Encode (encode appends to the buffer, encoded_len) and Decode *)

\* faulty variant: presence of username and password is taken from their
\* content, so an empty one is flagged absent
Connect_flags_ByContent(p) ==
    (IF p.clean_session THEN 2 ELSE 0)
    + (IF p.username # None /\ p.username # Some(<<>>) THEN 128 ELSE 0)
    + (IF p.password # None /\ p.password # Some(<<>>) THEN 64 ELSE 0)

Connect_flags(p) ==
    (IF p.clean_session THEN 2 ELSE 0)
    + (IF p.username # None THEN 128 ELSE 0)
    + (IF p.password # None THEN 64 ELSE 0)

Connect_encode(p, b) ==
    LET b1 == Append(b, Connect_flags(p))
        b2 == b1 \o U16BE(p.keep_alive)
        b3 == write_string(b2, p.client_id)
        b4 == IF p.username # None THEN write_string(b3, p.username[1]) ELSE b3
    IN  IF p.password # None
        THEN b4 \o U16BE(Len(p.password[1])) \o p.password[1]
        ELSE b4

\* faulty variant: the password's two-byte length prefix is not counted
Connect_encoded_len_NoPasswordPrefix(p) ==
    1 + 2 + 2 + Len(p.client_id)
    + (IF p.username # None THEN 2 + Len(p.username[1]) ELSE 0)
    + (IF p.password # None THEN Len(p.password[1]) ELSE 0)

Connect_encoded_len(p) ==
    1 + 2 + 2 + Len(p.client_id)
    + (IF p.username # None THEN 2 + Len(p.username[1]) ELSE 0)
    + (IF p.password # None THEN 2 + Len(p.password[1]) ELSE 0)

Connect_decode(b) ==
    IF Len(b) < 3 THEN Err(BufferTooShort(3, Len(b)))
    ELSE
    LET flags == b[1]
        clean_session == BitSet(flags, 1)
        has_username == BitSet(flags, 7)
        has_password == BitSet(flags, 6)
        keep_alive == read_u16(b, 1)
        cid == read_string(b, 3)
    IN  IF keep_alive.kind # "Ok" THEN keep_alive
        ELSE IF cid.kind # "Ok" THEN cid
        ELSE
        LET user == IF has_username THEN read_string(b, cid.val[2])
                    ELSE Ok(<<None, cid.val[2]>>)
        IN  IF user.kind # "Ok" THEN user
            ELSE
            LET username == IF has_username THEN Some(user.val[1]) ELSE None
                offset == user.val[2]
                plen == read_u16(b, offset)
            IN  IF ~has_password
                THEN Ok([type |-> "Connect", client_id |-> cid.val[1],
                         keep_alive |-> keep_alive.val,
                         clean_session |-> clean_session,
                         username |-> username, password |-> None])
                ELSE IF plen.kind # "Ok" THEN plen
                ELSE LET end == offset + 2 + plen.val
                     IN  IF Len(b) < end
                         THEN Err(BufferTooShort(end, Len(b)))
                         ELSE Ok([type |-> "Connect", client_id |-> cid.val[1],
                                  keep_alive |-> keep_alive.val,
                                  clean_session |-> clean_session,
                                  username |-> username,
                                  password |-> Some(SubSeq(b, offset + 3, end))])

ConnAck_encode(p, b) ==
    Append(Append(b, IF p.session_present THEN 1 ELSE 0),
           ConnectReturnCode_into_u8(p.return_code))

ConnAck_encoded_len(p) == 2

\* faulty variant: session_present is true for the byte 1 only (buf[0] == 1)
ConnAck_decode_SessionIsOne(b) ==
    IF Len(b) < 2 THEN Err(BufferTooShort(2, Len(b)))
    ELSE LET rc == ConnectReturnCode_try_from(b[2])
         IN  IF rc.kind # "Ok" THEN Err(InvalidReturnCode(rc.err))
             ELSE Ok([type |-> "ConnAck", session_present |-> b[1] = 1,
                      return_code |-> rc.val])

\* faulty variant: session_present is read inverted (buf[0] == 0)
ConnAck_decode_SessionInverted(b) ==
    IF Len(b) < 2 THEN Err(BufferTooShort(2, Len(b)))
    ELSE LET rc == ConnectReturnCode_try_from(b[2])
         IN  IF rc.kind # "Ok" THEN Err(InvalidReturnCode(rc.err))
             ELSE Ok([type |-> "ConnAck", session_present |-> b[1] = 0,
                      return_code |-> rc.val])

ConnAck_decode(b) ==
    IF Len(b) < 2 THEN Err(BufferTooShort(2, Len(b)))
    ELSE LET rc == ConnectReturnCode_try_from(b[2])
         IN  IF rc.kind # "Ok" THEN Err(InvalidReturnCode(rc.err))
             ELSE Ok([type |-> "ConnAck", session_present |-> b[1] # 0,
                      return_code |-> rc.val])

\* ((qos as u8) << 1) | retain
Publish_flags(p) ==
    AsU8(QoS_into_u8(p.qos) * 2) + (IF p.retain THEN 1 ELSE 0)

Publish_encode(p, b) ==
    write_string(Append(b, Publish_flags(p)), p.topic) \o p.payload

Publish_encoded_len(p) == 1 + 2 + Len(p.topic) + Len(p.payload)

\* faulty variant: the payload starts one byte late (buf[offset + 1..])
Publish_decode_SkipByte(b) ==
    IF Len(b) = 0 THEN Err(BufferTooShort(1, 0))
    ELSE
    LET flags == b[1]
        qos == QoS_try_from((flags \div 2) % 4)
        retain == BitSet(flags, 0)
        t == read_string(b, 1)
    IN  IF qos.kind # "Ok" THEN Err(InvalidQoS(qos.err))
        ELSE IF t.kind # "Ok" THEN t
        ELSE Ok([type |-> "Publish", topic |-> t.val[1], qos |-> qos.val,
                 retain |-> retain,
                 payload |-> SubSeq(b, t.val[2] + 2, Len(b))])

Publish_decode(b) ==
    IF Len(b) = 0 THEN Err(BufferTooShort(1, 0))
    ELSE
    LET flags == b[1]
        qos == QoS_try_from((flags \div 2) % 4)
        retain == BitSet(flags, 0)
        t == read_string(b, 1)
    IN  IF qos.kind # "Ok" THEN Err(InvalidQoS(qos.err))
        ELSE IF t.kind # "Ok" THEN t
        ELSE Ok([type |-> "Publish", topic |-> t.val[1], qos |-> qos.val,
                 retain |-> retain,
                 payload |-> SubSeq(b, t.val[2] + 1, Len(b))])

PubAck_encode(p, b) == b

PubAck_encoded_len(p) == 0

PubAck_decode(b) == Ok([type |-> "PubAck"])

RECURSIVE Subscribe_encode_filters(_, _, _)
\* for filter in &self.filters { write_string; push(qos) }, from filter i on
Subscribe_encode_filters(fs, i, b) ==
    IF i > Len(fs) THEN b
    ELSE Subscribe_encode_filters(fs, i + 1,
             Append(write_string(b, fs[i].topic), QoS_into_u8(fs[i].qos)))

Subscribe_encode(p, b) ==
    Subscribe_encode_filters(p.filters, 1, Append(b, AsU8(Len(p.filters))))

RECURSIVE Subscribe_sum_len(_, _)
\* filters.iter().map(|f| 2 + f.topic.len() + 1).sum(), from filter i on
Subscribe_sum_len(fs, i) ==
    IF i > Len(fs) THEN 0
    ELSE 2 + Len(fs[i].topic) + 1 + Subscribe_sum_len(fs, i + 1)

Subscribe_encoded_len(p) == 1 + Subscribe_sum_len(p.filters, 1)

RECURSIVE Subscribe_decode_loop(_, _, _, _)
\* the body of `for _ in 0..count`, with `left` iterations to go
Subscribe_decode_loop(b, left, offset, filters) ==
    IF left = 0 THEN Ok([type |-> "Subscribe", filters |-> filters])
    ELSE
    LET t == read_string(b, offset)
    IN  IF t.kind # "Ok" THEN t
        ELSE
        LET new_offset == t.val[2]
        IN  IF Len(b) <= new_offset
            THEN Err(BufferTooShort(new_offset + 1, Len(b)))
            ELSE LET qos == QoS_try_from(b[new_offset + 1])
                 IN  IF qos.kind # "Ok" THEN Err(InvalidQoS(qos.err))
                     ELSE Subscribe_decode_loop(b, left - 1, new_offset + 1,
                              Append(filters, [topic |-> t.val[1], qos |-> qos.val]))

Subscribe_decode(b) ==
    IF Len(b) = 0 THEN Err(BufferTooShort(1, 0))
    ELSE Subscribe_decode_loop(b, b[1], 1, <<>>)

RECURSIVE SubAck_encode_codes(_, _, _)
SubAck_encode_codes(cs, i, b) ==
    IF i > Len(cs) THEN b
    ELSE SubAck_encode_codes(cs, i + 1, Append(b, SubAckReturnCode_into_u8(cs[i])))

SubAck_encode(p, b) ==
    SubAck_encode_codes(p.return_codes, 1, Append(b, AsU8(Len(p.return_codes))))

SubAck_encoded_len(p) == 1 + Len(p.return_codes)

RECURSIVE SubAck_collect(_, _, _, _)
\* buf[1..1 + count].iter().map(try_from).collect::<Result<Vec<_>>>()
SubAck_collect(b, i, last, codes) ==
    IF i > last THEN Ok([type |-> "SubAck", return_codes |-> codes])
    ELSE LET c == SubAckReturnCode_try_from(b[i])
         IN  IF c.kind # "Ok" THEN Err(InvalidReturnCode(c.err))
             ELSE SubAck_collect(b, i + 1, last, Append(codes, c.val))

\* faulty variant: every byte after the count is taken as a return code
SubAck_decode_AllBytes(b) ==
    IF Len(b) = 0 THEN Err(BufferTooShort(1, 0))
    ELSE SubAck_collect(b, 2, Len(b), <<>>)

SubAck_decode(b) ==
    IF Len(b) = 0 THEN Err(BufferTooShort(1, 0))
    ELSE LET count == b[1]
         IN  IF Len(b) < 1 + count
             THEN Err(BufferTooShort(1 + count, Len(b)))
             ELSE SubAck_collect(b, 2, 1 + count, <<>>)

PingReq_encode(p, b) == b

PingReq_encoded_len(p) == 0

PingReq_decode(b) == Ok([type |-> "PingReq"])

PingResp_encode(p, b) == b

PingResp_encoded_len(p) == 0

PingResp_decode(b) == Ok([type |-> "PingResp"])

Disconnect_encode(p, b) == b

Disconnect_encoded_len(p) == 0

Disconnect_decode(b) == Ok([type |-> "Disconnect"])

-----------------------------------------------------------------------------
(* Packet and UdpFrame *)

Packet_msg_type(p) == p.type

HEADER_LEN == 4

MAX_PACKET_LEN == 255

UdpFrame_new(msg_id, packet) == [msg_id |-> msg_id, packet |-> packet]

\* the match of UdpFrame::encode: the active variant appends its bytes
Packet_encode(p, b) ==
    CASE p.type = "Connect" -> Connect_encode(p, b)
      [] p.type = "ConnAck" -> ConnAck_encode(p, b)
      [] p.type = "Publish" -> Publish_encode(p, b)
      [] p.type = "PubAck" -> PubAck_encode(p, b)
      [] p.type = "Subscribe" -> Subscribe_encode(p, b)
      [] p.type = "SubAck" -> SubAck_encode(p, b)
      [] p.type = "PingReq" -> PingReq_encode(p, b)
      [] p.type = "PingResp" -> PingResp_encode(p, b)
      [] p.type = "Disconnect" -> Disconnect_encode(p, b)

packet_payload_len(f) ==
    LET p == f.packet
    IN  CASE p.type = "Connect" -> Connect_encoded_len(p)
          [] p.type = "ConnAck" -> ConnAck_encoded_len(p)
          [] p.type = "Publish" -> Publish_encoded_len(p)
          [] p.type = "PubAck" -> PubAck_encoded_len(p)
          [] p.type = "Subscribe" -> Subscribe_encoded_len(p)
          [] p.type = "SubAck" -> SubAck_encoded_len(p)
          [] p.type = "PingReq" -> PingReq_encoded_len(p)
          [] p.type = "PingResp" -> PingResp_encoded_len(p)
          [] p.type = "Disconnect" -> Disconnect_encoded_len(p)

\* faulty variant: a length past 255 is written as 255
UdpFrame_encode_Saturate(f) ==
    LET payload_len == packet_payload_len(f)
        total_len == HEADER_LEN + payload_len
        b1 == <<Min(total_len, MAX_PACKET_LEN)>>
        b2 == Append(b1, MessageType_into_u8(Packet_msg_type(f.packet)))
        b3 == b2 \o U16BE(f.msg_id)
    IN  Packet_encode(f.packet, b3)

\* faulty variant: the msg_id is written low byte first
UdpFrame_encode_LittleEndianId(f) ==
    LET payload_len == packet_payload_len(f)
        total_len == HEADER_LEN + payload_len
        b1 == <<AsU8(total_len)>>
        b2 == Append(b1, MessageType_into_u8(Packet_msg_type(f.packet)))
        b3 == b2 \o <<f.msg_id % 256, (f.msg_id % 65536) \div 256>>
    IN  Packet_encode(f.packet, b3)

UdpFrame_encode(f) ==
    LET payload_len == packet_payload_len(f)
        total_len == HEADER_LEN + payload_len
        b1 == <<AsU8(total_len)>>
        b2 == Append(b1, MessageType_into_u8(Packet_msg_type(f.packet)))
        b3 == b2 \o U16BE(f.msg_id)
    IN  Packet_encode(f.packet, b3)

\* the match of UdpFrame::decode: dispatch on the validated type
Packet_decode(msg_type, payload) ==
    CASE msg_type = "Connect" -> Connect_decode(payload)
      [] msg_type = "ConnAck" -> ConnAck_decode(payload)
      [] msg_type = "Publish" -> Publish_decode(payload)
      [] msg_type = "PubAck" -> PubAck_decode(payload)
      [] msg_type = "Subscribe" -> Subscribe_decode(payload)
      [] msg_type = "SubAck" -> SubAck_decode(payload)
      [] msg_type = "PingReq" -> PingReq_decode(payload)
      [] msg_type = "PingResp" -> PingResp_decode(payload)
      [] msg_type = "Disconnect" -> Disconnect_decode(payload)

\* faulty variant: the type byte is validated before the declared length is checked
UdpFrame_decode_TypeFirst(b) ==
    IF Len(b) < HEADER_LEN THEN Err(BufferTooShort(HEADER_LEN, Len(b)))
    ELSE
    LET length == b[1]
        msg_type == MessageType_try_from(b[2])
        msg_id == FromBE(b[3], b[4])
    IN  IF msg_type.kind # "Ok" THEN msg_type
        ELSE IF Len(b) < length THEN Err(BufferTooShort(length, Len(b)))
        ELSE IF length < HEADER_LEN THEN Panic
        ELSE LET payload == SubSeq(b, HEADER_LEN + 1, length)
                 packet == Packet_decode(msg_type.val, payload)
             IN  IF packet.kind # "Ok" THEN packet
                 ELSE Ok(UdpFrame_new(msg_id, packet.val))

\* faulty variant: the payload slice runs to the end of the buffer (&buf[HEADER_LEN..])
UdpFrame_decode_WholeBuffer(b) ==
    IF Len(b) < HEADER_LEN THEN Err(BufferTooShort(HEADER_LEN, Len(b)))
    ELSE
    LET length == b[1]
    IN  IF Len(b) < length THEN Err(BufferTooShort(length, Len(b)))
        ELSE
        LET msg_type == MessageType_try_from(b[2])
            msg_id == FromBE(b[3], b[4])
        IN  IF msg_type.kind # "Ok" THEN msg_type
            ELSE LET payload == SubSeq(b, HEADER_LEN + 1, Len(b))
                     packet == Packet_decode(msg_type.val, payload)
                 IN  IF packet.kind # "Ok" THEN packet
                     ELSE Ok(UdpFrame_new(msg_id, packet.val))

\* faulty variant: a declared length below the header is reported as a
\* malformed packet
UdpFrame_decode_MalformedShort(b) ==
    IF Len(b) < HEADER_LEN THEN Err(BufferTooShort(HEADER_LEN, Len(b)))
    ELSE
    LET length == b[1]
    IN  IF Len(b) < length THEN Err(BufferTooShort(length, Len(b)))
        ELSE
        LET msg_type == MessageType_try_from(b[2])
            msg_id == FromBE(b[3], b[4])
        IN  IF msg_type.kind # "Ok" THEN msg_type
            ELSE IF length < HEADER_LEN THEN Err(MalformedPacket("length"))
            ELSE LET payload == SubSeq(b, HEADER_LEN + 1, length)
                     packet == Packet_decode(msg_type.val, payload)
                 IN  IF packet.kind # "Ok" THEN packet
                     ELSE Ok(UdpFrame_new(msg_id, packet.val))

UdpFrame_decode(b) ==
    IF Len(b) < HEADER_LEN THEN Err(BufferTooShort(HEADER_LEN, Len(b)))
    ELSE
    LET length == b[1]
    IN  IF Len(b) < length THEN Err(BufferTooShort(length, Len(b)))
        ELSE
        LET msg_type == MessageType_try_from(b[2])
            msg_id == FromBE(b[3], b[4])
        IN  IF msg_type.kind # "Ok" THEN msg_type
            \* &buf[HEADER_LEN..length] with length < HEADER_LEN aborts
            ELSE IF length < HEADER_LEN THEN Panic
            ELSE LET payload == SubSeq(b, HEADER_LEN + 1, length)
                     packet == Packet_decode(msg_type.val, payload)
                 IN  IF packet.kind # "Ok" THEN packet
                     ELSE Ok(UdpFrame_new(msg_id, packet.val))


-----------------------------------------------------------------------------
(* Inputs: the packets a caller builds and the bytes a datagram carries *)

\* sequences over S of length at most n
SeqsUpTo(S, n) == UNION {[1..k -> S] : k \in 0..n}

\* n bytes 1, 2, ..., wrapping at 256
Fill(n) == [i \in 1..n |-> i % 256]

\* Strings: "", "c1", a topic with a two-byte character ("t/" + U+00E9)
ClientIds == {<<>>, <<99, 49>>}

Topics == {<<>>, <<116>>, <<116, 47, 195, 169>>}

FilterTopics == {<<97>>, <<98, 47, 35>>}

Usernames == {<<>>, <<117>>}

\* password bytes need not be text
Passwords == {<<>>, <<255, 0>>}

\* payloads: empty, text ("25"), arbitrary binary
Payloads == {<<>>, <<50, 53>>, <<255, 0, 128>>}

\* payload lengths that, under a one-byte topic, put the frame at 255 bytes
\* and past it (256, 260, 261, 264)
LongPayloadLens == {247, 248, 252, 253, 256}

KeepAlives == {60, 4660}

MsgIds == {0, 258, 65535}

ConnectPackets ==
    {[type |-> "Connect", client_id |-> c, keep_alive |-> k, clean_session |-> cs,
      username |-> u, password |-> pw] :
        c \in ClientIds, k \in KeepAlives, cs \in BOOLEAN,
        u \in Opt(Usernames), pw \in Opt(Passwords)}

ConnAckPackets ==
    {[type |-> "ConnAck", session_present |-> sp, return_code |-> rc] :
        sp \in BOOLEAN, rc \in ConnectReturnCodes}

PublishPackets ==
    {[type |-> "Publish", topic |-> t, qos |-> q, retain |-> r, payload |-> pl] :
        t \in Topics, q \in QoSLevels, r \in BOOLEAN, pl \in Payloads}
    \cup
    {[type |-> "Publish", topic |-> <<116>>, qos |-> q, retain |-> r,
      payload |-> Fill(n)] :
        q \in QoSLevels, r \in BOOLEAN, n \in LongPayloadLens}

SubscribeFilters == {[topic |-> t, qos |-> q] : t \in FilterTopics, q \in QoSLevels}

\* a topic of n letters "a"
LongTopic(n) == [i \in 1..n |-> 97]

\* topic lengths that put a Subscribe of one filter at 255 bytes and past
\* it (261)
LongTopicLens == {247, 253}

SubscribePackets ==
    {[type |-> "Subscribe", filters |-> fs] : fs \in SeqsUpTo(SubscribeFilters, MaxFilters)}
    \cup
    {[type |-> "Subscribe", filters |-> <<[topic |-> LongTopic(n), qos |-> q]>>] :
        n \in LongTopicLens, q \in QoSLevels}

SubAckPackets ==
    {[type |-> "SubAck", return_codes |-> cs] : cs \in SeqsUpTo(SubAckReturnCodes, MaxCodes)}

EmptyPackets == {[type |-> t] : t \in {"PubAck", "PingReq", "PingResp", "Disconnect"}}

Packets ==
    ConnectPackets \cup ConnAckPackets \cup PublishPackets \cup SubscribePackets
    \cup SubAckPackets \cup EmptyPackets

\* every packet under one msg_id whose two bytes differ, and every msg_id
\* under the packets without payload
Frames ==
    {UdpFrame_new(258, p) : p \in Packets}
    \cup {UdpFrame_new(m, p) : m \in MsgIds, p \in EmptyPackets}

\* bytes of a datagram that arrives from the network: lengths below, at and
\* above the header length, valid and invalid type bytes
RawBytes == {0, 3, 4, 6, 255}

\* values a corrupted byte takes
TamperBytes == {0, 3, 6, 7, 255}

PadBytes == {0, 255}

-----------------------------------------------------------------------------
(* The datagram path: a frame is built and encoded (parse_payload), the    *)
(* transport hands back a datagram (socket.recv), which is decoded          *)
(* (format_mqtt_frame).                                                     *)

NoResult == [kind |-> "None"]

\* static MSG_ID_COUNTER: AtomicU16 = AtomicU16::new(1); nothing parsed yet
AllocInit ==
    /\ MSG_ID_COUNTER = 1
    /\ cmd = NoResult
    /\ last_msg_id = None
    /\ earlier_max = None

\* run: both channels empty, the network thread spawned, App::new
NetInit ==
    /\ cmd_q = <<>>
    /\ evt_q = <<>>
    /\ net_pc = "setup"
    /\ ui_pc = "drain"
    /\ running = TRUE
    /\ log = <<[ev |-> "Ready", n |-> 0]>>
    /\ sends = 0
    /\ recvs = 0
    /\ taken = <<>>
    /\ answers = <<>>
    /\ pending_at_recv = 0
    /\ net_exit = "none"

Init ==
    /\ AllocInit
    /\ NetInit
    /\ \/ /\ frame \in {Some(f) : f \in Frames}
          /\ pc = "new"
       \/ /\ frame = None
          /\ pc = "raw"
    /\ sent = None
    /\ buf = <<>>
    /\ via = "none"
    /\ result = NoResult

\* parse_payload: Ok((InputMode::Mqtt, frame.encode()))
Encode ==
    /\ pc = "new"
    /\ sent' = Some(UdpFrame_encode(frame[1]))
    /\ buf' = UdpFrame_encode(frame[1])
    /\ pc' = "encoded"
    /\ UNCHANGED <<frame, via, result>>
    /\ UNCHANGED allocVars
    /\ UNCHANGED netVars

\* the datagram arrives in a receive buffer that holds more bytes
Pad(x) ==
    /\ pc \in {"encoded", "padded"}
    /\ Len(buf) < Len(sent[1]) + MaxPad
    /\ buf' = Append(buf, x)
    /\ pc' = "padded"
    /\ UNCHANGED <<frame, sent, via, result>>
    /\ UNCHANGED allocVars
    /\ UNCHANGED netVars

\* the datagram arrives with one byte changed
Corrupt(i, x) ==
    /\ pc = "encoded"
    /\ i \in 1..Min(Len(buf), MaxTamperIdx)
    /\ buf[i] # x
    /\ buf' = [buf EXCEPT ![i] = x]
    /\ pc' = "corrupted"
    /\ UNCHANGED <<frame, sent, via, result>>
    /\ UNCHANGED allocVars
    /\ UNCHANGED netVars

\* the datagram arrives cut short
Truncate(n) ==
    /\ pc = "encoded"
    /\ n < Len(buf)
    /\ buf' = SubSeq(buf, 1, n)
    /\ pc' = "truncated"
    /\ UNCHANGED <<frame, sent, via, result>>
    /\ UNCHANGED allocVars
    /\ UNCHANGED netVars

\* a datagram from any peer: arbitrary bytes
RecvByte(x) ==
    /\ pc = "raw"
    /\ Len(buf) < MaxRaw
    /\ buf' = Append(buf, x)
    /\ UNCHANGED <<frame, sent, pc, via, result>>
    /\ UNCHANGED allocVars
    /\ UNCHANGED netVars

\* format_mqtt_frame: UdpFrame::decode(data)
Decode ==
    /\ pc \in {"encoded", "padded", "corrupted", "truncated", "raw"}
    /\ result' = UdpFrame_decode(buf)
    /\ via' = pc
    /\ pc' = "decoded"
    /\ UNCHANGED <<frame, sent, buf>>
    /\ UNCHANGED allocVars
    /\ UNCHANGED netVars

Next ==
    \/ Encode
    \/ \E x \in PadBytes : Pad(x)
    \/ \E i \in 1..MaxTamperIdx, x \in TamperBytes : Corrupt(i, x)
    \/ \E n \in 0..MaxTamperIdx : Truncate(n)
    \/ \E x \in RawBytes : RecvByte(x)
    \/ Decode

Spec == Init /\ [][Next]_vars

-----------------------------------------------------------------------------
(* The message-id allocator: parse_mqtt_command builds a frame under the   *)
(* next msg_id when the command parses, and returns early, leaving the     *)
(* counter alone, when it does not.                                        *)

\* the range of a u16 (AtomicU16)
U16_MODULUS == 65536

Max(a, b) == IF a > b THEN a ELSE b

\* MSG_ID_COUNTER.fetch_add(1, Ordering::Relaxed): returns the value held
\* before the addition, which wraps around on overflow
next_msg_id(counter) ==
    [id |-> counter, counter |-> (counter + 1) % U16_MODULUS]

\* commands without arguments: "ping", "disconnect"
CommandPackets == {[type |-> "PingReq"], [type |-> "Disconnect"]}

\* the datagram path at rest
CodecIdle ==
    /\ frame = None
    /\ sent = None
    /\ buf = <<>>
    /\ pc = "idle"
    /\ via = "none"
    /\ result = NoResult

AllocSpecInit == CodecIdle /\ AllocInit /\ NetInit

\* parse_mqtt_command: Ok(UdpFrame::new(next_msg_id(), packet))
ParseCommandOk(packet) ==
    LET n == next_msg_id(MSG_ID_COUNTER)
    IN  /\ MSG_ID_COUNTER' = n.counter
        /\ cmd' = Ok(UdpFrame_new(n.id, packet))
        /\ last_msg_id' = Some(n.id)
        /\ earlier_max' = IF last_msg_id = None THEN None
                          ELSE IF earlier_max = None THEN last_msg_id
                          ELSE Some(Max(earlier_max[1], last_msg_id[1]))
        /\ UNCHANGED codecVars

\* parse_mqtt_command: return Err(format!("unknown command: {}", cmd))
ParseCommandErr ==
    /\ cmd' = Err("unknown command")
    /\ UNCHANGED <<MSG_ID_COUNTER, last_msg_id, earlier_max>>
    /\ UNCHANGED codecVars

AllocNext ==
    \/ (\E packet \in CommandPackets : ParseCommandOk(packet)) /\ UNCHANGED netVars
    \/ ParseCommandErr /\ UNCHANGED netVars

AllocSpec == AllocSpecInit /\ [][AllocNext]_vars

-----------------------------------------------------------------------------
(* The UI loop (run, App) and the network thread (run_network_thread),     *)
(* joined by the command channel and the event channel (mpsc).  A sender   *)
(* whose receiver is dropped fails to send; a receiver whose sender is     *)
(* dropped still yields the messages queued, then Disconnected.            *)

\* the App, with its command sender and event receiver, is not yet dropped
UiAlive == ui_pc \notin {"done", "aborted"}

\* the network thread, with its command receiver and event sender, has not
\* returned
NetAlive == net_pc # "done"

\* NetCommand::Send { mode, input }, numbered in the order queued; kind is
\* what parse_payload makes of it: "mqtt" (an MQTT command that parses),
\* "text" (text mode, taken as it is), "bad" (an MQTT command that does not
\* parse)
SendKinds == {"mqtt", "text", "bad"}

NetCommand_Send(n, kind) == [cmd |-> "Send", n |-> n, kind |-> kind]

NetCommand_Shutdown == [cmd |-> "Shutdown"]

\* NetEvent::Sent, NetEvent::Received, NetEvent::Error; n is the number of
\* the Send the event answers, 0 when it answers none
NetEvent(ev, n) == [ev |-> ev, n |-> n]

\* faulty variant: a failed socket send is reported as Sent
response_SentOnFailure(parsed, sock_ok) ==
    IF parsed THEN "Sent" ELSE "Error"

\* the event for a Send: Error when parse_payload fails or socket.send
\* fails, Sent otherwise
response(parsed, sock_ok) ==
    IF ~parsed THEN "Error"
    ELSE IF sock_ok THEN "Sent"
    ELSE "Error"

\* faulty variant: after one command the thread goes on to socket.recv
after_send_Recv == "recv"

\* after a Send is answered the inner loop runs again (try_recv)
after_send == "cmds"

\* faulty variant: Shutdown is skipped and the inner loop runs again
on_shutdown_Continue == "cmds"

\* Ok(NetCommand::Shutdown) => return
on_shutdown == "done"

\* the while condition of run: drain again, or leave the loop
LoopCheck(r) == IF r THEN "drain" ELSE "shutdown"

\* the network thread returns: its command receiver is dropped, and the
\* commands still queued with it
NetReturn(reason) ==
    /\ net_pc' = "done"
    /\ net_exit' = reason
    /\ cmd_q' = <<>>

\* bind, connect and set_nonblocking all succeed
Net_setup_ok ==
    /\ net_pc = "setup"
    /\ net_pc' = "cmds"
    /\ UNCHANGED <<cmd_q, evt_q, ui_pc, running, log, sends, recvs,
                   taken, answers, pending_at_recv, net_exit>>
    /\ UNCHANGED <<codecVars, allocVars>>

\* bind, connect or set_nonblocking fails: let _ = tx_evt.send(Error); return
Net_setup_fail ==
    /\ net_pc = "setup"
    /\ evt_q' = IF UiAlive THEN Append(evt_q, NetEvent("Error", 0)) ELSE evt_q
    /\ NetReturn("setup")
    /\ UNCHANGED <<ui_pc, running, log, sends, recvs, taken, answers,
                   pending_at_recv>>
    /\ UNCHANGED <<codecVars, allocVars>>

\* rx_cmd.try_recv() yields a Send: parse_payload, socket.send, and the
\* event for it; the thread returns when the event cannot be sent
Net_take_send(sock_ok) ==
    /\ net_pc = "cmds"
    /\ cmd_q # <<>>
    /\ Head(cmd_q).cmd = "Send"
    /\ LET c == Head(cmd_q)
           parsed == c.kind # "bad"
           ev == response(parsed, sock_ok)
       IN  /\ ~parsed => sock_ok
           /\ CASE c.kind = "mqtt" ->
                       \E packet \in CommandPackets : ParseCommandOk(packet)
                [] c.kind = "bad" -> ParseCommandErr
                [] c.kind = "text" -> UNCHANGED <<codecVars, allocVars>>
           /\ taken' = Append(taken, [n |-> c.n, parsed |-> parsed,
                                      sock_ok |-> parsed /\ sock_ok])
           /\ IF UiAlive
              THEN /\ evt_q' = Append(evt_q, NetEvent(ev, c.n))
                   /\ answers' = Append(answers, NetEvent(ev, c.n))
                   /\ cmd_q' = Tail(cmd_q)
                   /\ net_pc' = after_send
                   /\ pending_at_recv' = IF after_send = "recv"
                                         THEN Len(Tail(cmd_q))
                                         ELSE pending_at_recv
                   /\ UNCHANGED net_exit
              ELSE /\ NetReturn("evt_closed")
                   /\ UNCHANGED <<evt_q, answers, pending_at_recv>>
    /\ UNCHANGED <<ui_pc, running, log, sends, recvs>>

\* rx_cmd.try_recv() yields Shutdown
Net_take_shutdown ==
    /\ net_pc = "cmds"
    /\ cmd_q # <<>>
    /\ Head(cmd_q).cmd = "Shutdown"
    /\ IF on_shutdown = "done"
       THEN NetReturn("shutdown")
       ELSE /\ net_pc' = on_shutdown
            /\ cmd_q' = Tail(cmd_q)
            /\ UNCHANGED net_exit
    /\ UNCHANGED <<evt_q, ui_pc, running, log, sends, recvs, taken, answers,
                   pending_at_recv>>
    /\ UNCHANGED <<codecVars, allocVars>>

\* rx_cmd.try_recv() yields Empty: break, on to socket.recv
Net_cmds_empty ==
    /\ net_pc = "cmds"
    /\ cmd_q = <<>>
    /\ UiAlive
    /\ net_pc' = "recv"
    /\ pending_at_recv' = Len(cmd_q)
    /\ UNCHANGED <<cmd_q, evt_q, ui_pc, running, log, sends, recvs, taken,
                   answers, net_exit>>
    /\ UNCHANGED <<codecVars, allocVars>>

\* rx_cmd.try_recv() yields Disconnected: return
Net_cmds_disconnected ==
    /\ net_pc = "cmds"
    /\ cmd_q = <<>>
    /\ ~UiAlive
    /\ NetReturn("cmd_disconnected")
    /\ UNCHANGED <<evt_q, ui_pc, running, log, sends, recvs, taken, answers,
                   pending_at_recv>>
    /\ UNCHANGED <<codecVars, allocVars>>

\* socket.recv yields WouldBlock; sleep; the outer loop runs again
Net_recv_would_block ==
    /\ net_pc = "recv"
    /\ net_pc' = "cmds"
    /\ UNCHANGED <<cmd_q, evt_q, ui_pc, running, log, sends, recvs, taken,
                   answers, pending_at_recv, net_exit>>
    /\ UNCHANGED <<codecVars, allocVars>>

\* socket.recv yields a datagram (Received) or another error (Error): the
\* event is sent, or the thread returns when it cannot be
Net_recv_event(ev) ==
    /\ net_pc = "recv"
    /\ recvs < MaxRecvs
    /\ recvs' = recvs + 1
    /\ IF UiAlive
       THEN /\ evt_q' = Append(evt_q, NetEvent(ev, 0))
            /\ net_pc' = "cmds"
            /\ UNCHANGED <<cmd_q, net_exit>>
       ELSE /\ NetReturn("evt_closed")
            /\ UNCHANGED evt_q
    /\ UNCHANGED <<ui_pc, running, log, sends, taken, answers, pending_at_recv>>
    /\ UNCHANGED <<codecVars, allocVars>>

\* drain_net_events: try_recv yields an event, which is logged (a log
\* line is written as the event it shows; log_error lines and the first
\* line as events of their text)
Ui_drain_event ==
    /\ ui_pc = "drain"
    /\ evt_q # <<>>
    /\ log' = Append(log, Head(evt_q))
    /\ evt_q' = Tail(evt_q)
    /\ UNCHANGED <<cmd_q, net_pc, ui_pc, running, sends, recvs, taken, answers,
                   pending_at_recv, net_exit>>
    /\ UNCHANGED <<codecVars, allocVars>>

\* drain_net_events: try_recv yields Empty: break; draw; poll
Ui_drain_empty ==
    /\ ui_pc = "drain"
    /\ evt_q = <<>>
    /\ NetAlive
    /\ ui_pc' = "poll"
    /\ UNCHANGED <<cmd_q, evt_q, net_pc, running, log, sends, recvs, taken,
                   answers, pending_at_recv, net_exit>>
    /\ UNCHANGED <<codecVars, allocVars>>

\* drain_net_events: try_recv yields Disconnected: log_error,
\* running = false, break; draw; poll
Ui_drain_disconnected ==
    /\ ui_pc = "drain"
    /\ evt_q = <<>>
    /\ ~NetAlive
    /\ log' = Append(log, NetEvent("Network thread disconnected", 0))
    /\ running' = FALSE
    /\ ui_pc' = "poll"
    /\ UNCHANGED <<cmd_q, evt_q, net_pc, sends, recvs, taken, answers,
                   pending_at_recv, net_exit>>
    /\ UNCHANGED <<codecVars, allocVars>>

\* no input within the poll timeout, or input that sends nothing (typing,
\* Tab, scrolling, Enter on an empty line)
Ui_idle ==
    /\ ui_pc = "poll"
    /\ ui_pc' = LoopCheck(running)
    /\ UNCHANGED <<cmd_q, evt_q, net_pc, running, log, sends, recvs, taken,
                   answers, pending_at_recv, net_exit>>
    /\ UNCHANGED <<codecVars, allocVars>>

\* KeyCode::Esc => app.running = false
Ui_key_esc ==
    /\ ui_pc = "poll"
    /\ running' = FALSE
    /\ ui_pc' = "shutdown"
    /\ UNCHANGED <<cmd_q, evt_q, net_pc, log, sends, recvs, taken, answers,
                   pending_at_recv, net_exit>>
    /\ UNCHANGED <<codecVars, allocVars>>

\* KeyCode::Enter => app.send() on a non-empty line: the Send is queued,
\* or, the network thread gone, log_error and running = false
App_send(kind) ==
    /\ ui_pc = "poll"
    /\ sends < MaxSends
    /\ IF NetAlive
       THEN /\ cmd_q' = Append(cmd_q, NetCommand_Send(sends + 1, kind))
            /\ sends' = sends + 1
            /\ ui_pc' = LoopCheck(running)
            /\ UNCHANGED <<running, log>>
       ELSE /\ log' = Append(log, NetEvent("Network thread unavailable", 0))
            /\ running' = FALSE
            /\ ui_pc' = "shutdown"
            /\ UNCHANGED <<cmd_q, sends>>
    /\ UNCHANGED <<evt_q, net_pc, recvs, taken, answers, pending_at_recv,
                   net_exit>>
    /\ UNCHANGED <<codecVars, allocVars>>

\* terminal.draw, event::poll or event::read fails, or the terminal
\* cannot be set up before the first turn of the loop: run returns through
\* '?', the App is dropped (and the events queued with its receiver), no
\* Shutdown is sent and the thread is not joined
Ui_abort ==
    /\ \/ ui_pc = "poll"
       \/ ui_pc = "drain" /\ Len(log) = 1 /\ sends = 0
    /\ ui_pc' = "aborted"
    /\ evt_q' = <<>>
    /\ UNCHANGED <<cmd_q, net_pc, running, log, sends, recvs, taken, answers,
                   pending_at_recv, net_exit>>
    /\ UNCHANGED <<codecVars, allocVars>>

\* after the loop: let _ = app.tx.send(NetCommand::Shutdown)
Ui_shutdown ==
    /\ ui_pc = "shutdown"
    /\ cmd_q' = IF NetAlive THEN Append(cmd_q, NetCommand_Shutdown) ELSE cmd_q
    /\ ui_pc' = "join"
    /\ UNCHANGED <<evt_q, net_pc, running, log, sends, recvs, taken, answers,
                   pending_at_recv, net_exit>>
    /\ UNCHANGED <<codecVars, allocVars>>

\* let _ = network_thread.join(): returns once the thread has; run returns
\* and the App is dropped
Ui_join ==
    /\ ui_pc = "join"
    /\ ~NetAlive
    /\ ui_pc' = "done"
    /\ evt_q' = <<>>
    /\ UNCHANGED <<cmd_q, net_pc, running, log, sends, recvs, taken, answers,
                   pending_at_recv, net_exit>>
    /\ UNCHANGED <<codecVars, allocVars>>

\* the steps of run_network_thread
NetThreadNext ==
    \/ Net_setup_ok
    \/ Net_setup_fail
    \/ \E sock_ok \in BOOLEAN : Net_take_send(sock_ok)
    \/ Net_take_shutdown
    \/ Net_cmds_empty
    \/ Net_cmds_disconnected
    \/ Net_recv_would_block
    \/ \E ev \in {"Received", "Error"} : Net_recv_event(ev)

\* the steps of run
UiNext ==
    \/ Ui_drain_event
    \/ Ui_drain_empty
    \/ Ui_drain_disconnected
    \/ Ui_idle
    \/ Ui_key_esc
    \/ \E kind \in SendKinds : App_send(kind)
    \/ Ui_abort
    \/ Ui_shutdown
    \/ Ui_join

NetSpecInit == CodecIdle /\ AllocInit /\ NetInit

NetNext == NetThreadNext \/ UiNext

NetSpec == NetSpecInit /\ [][NetNext]_vars

\* both threads keep being scheduled: neither waits for anything but the
\* other (poll and sleep time out, the socket is non-blocking, the channels
\* are unbounded)
NetFairSpec ==
    NetSpecInit /\ [][NetNext]_vars /\ WF_vars(NetThreadNext) /\ WF_vars(UiNext)


-----------------------------------------------------------------------------
(* Properties of the codec *)

RoundTripKinds == {"Connect", "Publish", "Subscribe", "PubAck", "PingReq",
                   "PingResp", "Disconnect"}

\* the datagram decoded is exactly what encode produced
Untouched == pc = "decoded" /\ via = "encoded"

\* C1: round-trip law. For every frame of a listed kind (Connect, Publish,
\* Subscribe and the kinds without payload) and every msg_id, decoding the
\* bytes encode produced returns Ok of an equal frame.
C1_RoundTrip ==
    (Untouched /\ frame[1].packet.type \in RoundTripKinds)
        => result = Ok(frame[1])

\* C2: length accuracy. For every packet of each of the nine kinds,
\* encoded_len() is exactly the number of bytes encode() appends after the
\* four header bytes.
C2_LengthAccuracy ==
    sent # None => Len(sent[1]) - HEADER_LEN = packet_payload_len(frame[1])

\* C2 witness: an encoded Connect with a username and a non-empty password
C2_Witness ==
    /\ sent # None
    /\ frame[1].packet.type = "Connect"
    /\ frame[1].packet.username # None
    /\ frame[1].packet.password # None
    /\ Len(frame[1].packet.password[1]) > 0
    /\ Len(sent[1]) = HEADER_LEN + packet_payload_len(frame[1])

\* C3: decode is total. For every buffer, decode returns Ok or Err: it
\* never aborts.
C3_DecodeTotal ==
    pc = "decoded" => result.kind \in {"Ok", "Err"}

\* C4: header length invariant. Every output of encode is at most 255 bytes
\* long and its byte 0 is its length.
C4_HeaderLength ==
    sent # None =>
        /\ Len(sent[1]) <= MAX_PACKET_LEN
        /\ sent[1][1] = Len(sent[1])

\* C5: short-buffer rejection. Fewer than 4 bytes fail with
\* BufferTooShort{4, len}; at least 4 bytes with a length byte above the
\* buffer length fail with BufferTooShort{buf[0], len}.
C5_ShortBuffer ==
    pc = "decoded" =>
        /\ Len(buf) < 4 => result = Err(BufferTooShort(4, Len(buf)))
        /\ (Len(buf) >= 4 /\ buf[1] > Len(buf))
               => result = Err(BufferTooShort(buf[1], Len(buf)))

\* C5 witness: a decoded datagram of at least 4 bytes that declares more
\* bytes than it holds, under a type byte that is itself invalid
C5_Witness ==
    /\ pc = "decoded"
    /\ Len(buf) >= 4
    /\ buf[1] > Len(buf)
    /\ buf[2] = 255
    /\ result = Err(BufferTooShort(buf[1], Len(buf)))

\* C6: rejection of unknown type. With at least 4 bytes and at least buf[0]
\* bytes, a type byte outside 1..9 fails with InvalidMessageType(buf[1]);
\* no decoded packet has a kind other than the one its type byte names.
C6_UnknownType ==
    pc = "decoded" =>
        /\ (Len(buf) >= 4 /\ Len(buf) >= buf[1] /\ buf[2] \notin 1..9)
               => result = Err(InvalidMessageType(buf[2]))
        /\ result.kind = "Ok"
               => /\ buf[2] \in 1..9
                  /\ MessageType_into_u8(Packet_msg_type(result.val.packet)) = buf[2]

\* C6 witness: a decoded datagram, long enough, whose type byte is 0xFF
C6_Witness ==
    /\ pc = "decoded"
    /\ Len(buf) >= 4
    /\ Len(buf) >= buf[1]
    /\ buf[2] = 255
    /\ result = Err(InvalidMessageType(255))

\* the first buf[0] bytes of the buffer
DeclaredPrefix(b) == SubSeq(b, 1, b[1])

\* C7 as stated: trailing bytes are ignored. For every buffer b with
\* b.len() >= b[0], decode(b) is decode of the prefix b[0..b[0]]. Stated
\* over the datagrams received byte by byte, which are all the buffers over
\* RawBytes of at most MaxRaw bytes.
C7_TrailingIgnored ==
    (pc = "decoded" /\ via = "raw" /\ Len(buf) >= 1 /\ Len(buf) >= buf[1])
        => result = UdpFrame_decode(DeclaredPrefix(buf))

\* C7 as amended: the same, for buffers whose declared length covers the
\* header (b[0] >= 4), or that end at their declared length.
C7_TrailingIgnoredFramed ==
    (/\ pc = "decoded"
     /\ Len(buf) >= 1
     /\ Len(buf) >= buf[1]
     /\ (buf[1] >= HEADER_LEN \/ Len(buf) = buf[1]))
        => result = UdpFrame_decode(DeclaredPrefix(buf))

\* C7 witness: a Publish decoded from a datagram that holds bytes past its
\* declared length
C7_Witness ==
    /\ pc = "decoded"
    /\ via = "padded"
    /\ buf[1] >= HEADER_LEN
    /\ Len(buf) > buf[1]
    /\ result.kind = "Ok"
    /\ result.val.packet.type = "Publish"
    /\ result = UdpFrame_decode(DeclaredPrefix(buf))


\* the buffer passes the header checks as a frame of type byte t whose
\* payload holds at least n bytes
Framed(t, n) ==
    /\ Len(buf) >= HEADER_LEN
    /\ buf[1] >= HEADER_LEN + n
    /\ Len(buf) >= buf[1]
    /\ buf[2] = t

RECURSIVE FiltersLen(_, _)
\* bytes taken by the first k filters on the wire
FiltersLen(fs, k) ==
    IF k = 0 THEN 0 ELSE FiltersLen(fs, k - 1) + 2 + Len(fs[k].topic) + 1

\* index in the frame of the QoS byte of filter k
QosIndex(fs, k) == HEADER_LEN + 1 + FiltersLen(fs, k)

BadSubAckCode(x) == x \notin {0, 1, 2, 128}

C9_PublishFlags ==
    (sent # None /\ frame[1].packet.type = "Publish") =>
        /\ sent[1][5] = QoS_into_u8(frame[1].packet.qos) * 2
                        + (IF frame[1].packet.retain THEN 1 ELSE 0)
        /\ Untouched =>
               /\ result.kind = "Ok"
               /\ result.val.packet.qos = frame[1].packet.qos
               /\ result.val.packet.retain = frame[1].packet.retain

\* C10: Publish payload is everything left. A Publish that decodes has as
\* its payload the frame bytes from index 4 + 3 + topic length up to the
\* declared length buf[0], and nothing past it.
C10_PublishPayload ==
    (pc = "decoded" /\ result.kind = "Ok" /\ result.val.packet.type = "Publish")
        => result.val.packet.payload
               = SubSeq(buf, HEADER_LEN + 3 + Len(result.val.packet.topic) + 1, buf[1])

\* C10 witness: a decoded Publish with a non-empty topic and payload, from a
\* datagram that holds bytes past its declared length
C10_Witness ==
    /\ pc = "decoded"
    /\ via = "padded"
    /\ result.kind = "Ok"
    /\ result.val.packet.type = "Publish"
    /\ Len(result.val.packet.topic) > 0
    /\ Len(result.val.packet.payload) > 0
    /\ Len(buf) > buf[1]
    /\ result.val.packet.payload = frame[1].packet.payload


\* C11: Connect presence flags. The flags byte Connect::encode writes has
\* bit 1 set iff clean_session, bit 7 iff username is Some, bit 6 iff
\* password is Some, and no other bit; a Connect that decodes has username
\* Some iff bit 7 of its flags byte is set and password Some iff bit 6 is,
\* whatever the fields hold; so decoding what encode produced never turns a
\* Some (an empty one included) into None.
C11_ConnectFlags ==
    /\ (sent # None /\ frame[1].packet.type = "Connect") =>
           LET p == frame[1].packet
           IN  /\ \A i \in 0..7 :
                      BitSet(sent[1][5], i)
                          <=> \/ i = 1 /\ p.clean_session
                              \/ i = 7 /\ p.username # None
                              \/ i = 6 /\ p.password # None
               /\ (Untouched /\ result.kind = "Ok") =>
                      /\ result.val.packet.username = p.username
                      /\ result.val.packet.password = p.password
    /\ (pc = "decoded" /\ result.kind = "Ok"
            /\ result.val.packet.type = "Connect") =>
           /\ result.val.packet.username # None <=> BitSet(buf[5], 7)
           /\ result.val.packet.password # None <=> BitSet(buf[5], 6)

\* C11 witness: a Connect whose username and password are both present and
\* empty, decoded from what encode produced with both still present
C11_Witness ==
    /\ Untouched
    /\ frame[1].packet.type = "Connect"
    /\ frame[1].packet.username = Some(<<>>)
    /\ frame[1].packet.password = Some(<<>>)
    /\ BitSet(buf[5], 7)
    /\ BitSet(buf[5], 6)
    /\ result.kind = "Ok"
    /\ result.val.packet.username = Some(<<>>)
    /\ result.val.packet.password = Some(<<>>)


\* C12: Subscribe filter ordering. Subscribe::encode writes a one-byte
\* filter count and then every filter in sequence order, each as its
\* length-prefixed topic followed by its own QoS byte; and for every
\* Subscribe, decoding the encoded frame yields the same filters, as many
\* and in the same order, each QoS with its own topic.
C12_SubscribeOrder ==
    (sent # None /\ frame[1].packet.type = "Subscribe") =>
        LET fs == frame[1].packet.filters
        IN  /\ sent[1][5] = Len(fs) % 256
            /\ \A k \in 1..Len(fs) :
                   LET at == HEADER_LEN + 1 + FiltersLen(fs, k - 1)
                   IN  SubSeq(sent[1], at + 1, at + 2 + Len(fs[k].topic) + 1)
                           = U16BE(Len(fs[k].topic)) \o fs[k].topic
                             \o <<QoS_into_u8(fs[k].qos)>>
            /\ Untouched =>
                   /\ result.kind = "Ok"
                   /\ result.val.packet.type = "Subscribe"
                   /\ result.val.packet.filters = fs


\* the kind each type byte 0x01..0x09 names on the wire
KindOfByte == <<"Connect", "ConnAck", "Publish", "PubAck", "Subscribe",
                "SubAck", "PingReq", "PingResp", "Disconnect">>

\* C13: frame header layout. Every output of UdpFrame::encode carries at
\* index 1 the type byte of the packet's kind, at indices 2-3 the msg_id
\* high byte first, and from index 4 to its end exactly the bytes the
\* packet's own encode produces.
C13_HeaderLayout ==
    sent # None =>
        LET out == sent[1]
            f == frame[1]
        IN  /\ Len(out) >= HEADER_LEN
            /\ out[2] \in 1..9
            /\ KindOfByte[out[2]] = f.packet.type
            /\ out[3] = f.msg_id \div 256
            /\ out[4] = f.msg_id % 256
            /\ SubSeq(out, HEADER_LEN + 1, Len(out)) = Packet_encode(f.packet, <<>>)

\* C13 witness: an encoded Publish under msg_id 0x0102, its header bytes
\* 3, 1, 2 followed by a non-empty packet body
C13_Witness ==
    /\ sent # None
    /\ frame[1].packet.type = "Publish"
    /\ frame[1].msg_id = 258
    /\ SubSeq(sent[1], 2, 4) = <<3, 1, 2>>
    /\ Len(sent[1]) > HEADER_LEN
    /\ SubSeq(sent[1], HEADER_LEN + 1, Len(sent[1]))
           = Publish_encode(frame[1].packet, <<>>)


\* C14: message type is bijective and drives dispatch. For every byte b,
\* MessageType::try_from(b) is Ok exactly when b is in 0x01..0x09, and the
\* byte of its result is b again; every kind comes back from its own byte;
\* Packet::msg_type is the tag of the active variant; and whenever decode
\* returns a frame, the byte of its packet's msg_type is buf[1].
C14_TypeBijection ==
    /\ \A b \in 0..255 :
           LET r == MessageType_try_from(b)
           IN  /\ r.kind = "Ok" <=> b \in 1..9
               /\ r.kind = "Ok" => MessageType_into_u8(r.val) = b
               /\ r.kind # "Ok" => r = Err(InvalidMessageType(b))
    /\ \A t \in MessageTypes :
           MessageType_try_from(MessageType_into_u8(t)) = Ok(t)
    /\ frame # None =>
           KindOfByte[MessageType_into_u8(Packet_msg_type(frame[1].packet))]
               = frame[1].packet.type
    /\ (pc = "decoded" /\ result.kind = "Ok") =>
           /\ MessageType_into_u8(Packet_msg_type(result.val.packet)) = buf[2]
           /\ result.val.packet.type = KindOfByte[buf[2]]

\* C14 witness: a datagram of type byte 0x08 decoded as a PingResp
C14_Witness ==
    /\ pc = "decoded"
    /\ Len(buf) >= HEADER_LEN
    /\ buf[2] = 8
    /\ result.kind = "Ok"
    /\ Packet_msg_type(result.val.packet) = "PingResp"
    /\ MessageType_try_from(buf[2]) = Ok("PingResp")


\* C15: message-id allocation is monotonically increasing. Over any
\* sequence of successful parse_mqtt_command calls, the frame just built
\* carries the msg_id the allocator handed out, and that msg_id is strictly
\* greater than the msg_id of every frame built before it (so no two
\* frames receive the same one).
C15_MsgIdMonotonic ==
    /\ cmd.kind = "Ok" => last_msg_id = Some(cmd.val.msg_id)
    /\ earlier_max # None => last_msg_id[1] > earlier_max[1]


\* C16: order of the decode checks. UdpFrame::decode reports the first
\* failure among (1) fewer than 4 bytes, (2) fewer bytes than the declared
\* length, (3) an invalid type byte, (4) the error of the packet's own
\* decoder; a buffer that both declares more bytes than it holds and has
\* an invalid type byte fails with BufferTooShort; and the packet decoder's
\* result, error or packet, is returned as it is only under a header that
\* passed (1)-(3).
C16_CheckOrder ==
    pc = "decoded" =>
        IF Len(buf) < HEADER_LEN
        THEN result = Err(BufferTooShort(HEADER_LEN, Len(buf)))
        ELSE IF Len(buf) < buf[1]
        THEN result = Err(BufferTooShort(buf[1], Len(buf)))
        ELSE IF buf[2] \notin 1..9
        THEN result = Err(InvalidMessageType(buf[2]))
        ELSE buf[1] >= HEADER_LEN =>
                 LET inner == Packet_decode(KindOfByte[buf[2]],
                                            SubSeq(buf, HEADER_LEN + 1, buf[1]))
                 IN  IF inner.kind = "Err" THEN result = inner
                     ELSE result = Ok(UdpFrame_new(FromBE(buf[3], buf[4]), inner.val))

\* C16 witness: a datagram received byte by byte that declares 6 bytes,
\* holds fewer, and has the invalid type byte 0: BufferTooShort wins
C16_Witness ==
    /\ pc = "decoded"
    /\ via = "raw"
    /\ Len(buf) >= HEADER_LEN
    /\ buf[1] = 6
    /\ Len(buf) < 6
    /\ buf[2] = 0
    /\ result = Err(BufferTooShort(6, Len(buf)))


\* C17: encode is total and its length byte wraps. UdpFrame::encode
\* produces bytes for every frame; byte 0 of the output is
\* (4 + encoded_len()) mod 256; the output always holds the four header
\* bytes and the whole packet body, so when 4 + encoded_len() exceeds 255
\* byte 0 is smaller than the real output length.
C17_EncodeWraps ==
    /\ pc = "new" => ENABLED Encode
    /\ sent # None =>
           LET out == sent[1]
               total == HEADER_LEN + packet_payload_len(frame[1])
           IN  /\ out[1] = total % 256
               /\ Len(out) = HEADER_LEN + Len(Packet_encode(frame[1].packet, <<>>))
               /\ Len(out) = total
               /\ total > 255 => out[1] < Len(out)

\* C17 witness: an encoded frame of 261 bytes whose byte 0 is 5
C17_Witness ==
    /\ sent # None
    /\ HEADER_LEN + packet_payload_len(frame[1]) = 261
    /\ Len(sent[1]) = 261
    /\ sent[1][1] = 5


\* read_string's contract at one offset of one buffer: too short for the
\* length prefix, too short for the declared bytes, not text, or the string
\* and the offset of the byte after it, in this order
ReadStringContract(b, offset) ==
    LET r == read_string(b, offset)
    IN  IF Len(b) < offset + 2
        THEN r = Err(BufferTooShort(offset + 2, Len(b)))
        ELSE LET L == b[offset + 1] * 256 + b[offset + 2]
                 bytes == [i \in 1..L |-> b[offset + 2 + i]]
             IN  IF Len(b) < offset + 2 + L
                 THEN r = Err(BufferTooShort(offset + 2 + L, Len(b)))
                 ELSE IF ~IsUtf8(bytes)
                 THEN r = Err(InvalidUtf8)
                 ELSE r = Ok(<<bytes, offset + 2 + L>>)

\* C18: read_string contract. For every buffer and offset: with fewer than
\* offset + 2 bytes read_string fails with BufferTooShort{offset + 2, len};
\* otherwise, L being the big-endian u16 at offset, with fewer than
\* offset + 2 + L bytes it fails with BufferTooShort{offset + 2 + L, len};
\* otherwise it fails with InvalidUtf8 when the L bytes are not text, and
\* else returns them with the next offset offset + 2 + L.  The bounds come
\* before the text check and no byte outside the buffer is read.  A
\* Publish that passed its flags check decodes as read_string at offset 1
\* says: its error, or its string as the topic and the rest as the
\* payload.
C18_ReadString ==
    /\ \A offset \in 0..(Len(buf) + 1) : ReadStringContract(buf, offset)
    /\ (pc = "decoded" /\ Framed(3, 1) /\ (buf[5] \div 2) % 4 # 3) =>
           LET payload == SubSeq(buf, HEADER_LEN + 1, buf[1])
               r == read_string(payload, 1)
           IN  /\ ReadStringContract(payload, 1)
               /\ r.kind = "Err" => result = r
               /\ r.kind = "Ok" =>
                      /\ result.kind = "Ok"
                      /\ result.val.packet.topic = r.val[1]
                      /\ result.val.packet.payload
                             = SubSeq(payload, r.val[2] + 1, Len(payload))

\* C18 witness: a Publish whose topic bytes lie inside the payload and are
\* not text, rejected with InvalidUtf8
C18_Witness ==
    /\ pc = "decoded"
    /\ Framed(3, 3)
    /\ (buf[5] \div 2) % 4 # 3
    /\ buf[1] >= HEADER_LEN + 3 + buf[6] * 256 + buf[7]
    /\ read_string(SubSeq(buf, HEADER_LEN + 1, buf[1]), 1) = Err(InvalidUtf8)
    /\ result = Err(InvalidUtf8)


\* the return code each byte names on the wire
SubAckCodeOfByte(x) ==
    CASE x = 0 -> "SuccessQoS0"
      [] x = 1 -> "SuccessQoS1"
      [] x = 2 -> "SuccessQoS2"
      [] x = 128 -> "Failure"

\* C19: SubAck decoding is count-driven. With p the payload of a SubAck
\* frame: an empty p fails with BufferTooShort{1, 0}; fewer than 1 + p[0]
\* bytes fail with BufferTooShort{1 + p[0], len}; otherwise the result has
\* exactly p[0] return codes, those of the bytes p[1..1 + p[0]] in wire
\* order, or is InvalidReturnCode(b) for the first of these bytes outside
\* {0, 1, 2, 0x80}; bytes after the counted ones play no part.
C19_SubAckDecode ==
    (pc = "decoded" /\ Framed(6, 0)) =>
        LET p == SubSeq(buf, HEADER_LEN + 1, buf[1])
        IN  IF Len(p) = 0
            THEN result = Err(BufferTooShort(1, 0))
            ELSE IF Len(p) < 1 + p[1]
            THEN result = Err(BufferTooShort(1 + p[1], Len(p)))
            ELSE LET bad == {i \in 1..p[1] : BadSubAckCode(p[1 + i])}
                 IN  IF bad # {}
                     THEN LET first == CHOOSE i \in bad : \A j \in bad : i <= j
                          IN  result = Err(InvalidReturnCode(p[1 + first]))
                     ELSE /\ result.kind = "Ok"
                          /\ result.val.packet.type = "SubAck"
                          /\ Len(result.val.packet.return_codes) = p[1]
                          /\ \A i \in 1..p[1] :
                                 result.val.packet.return_codes[i]
                                     = SubAckCodeOfByte(p[1 + i])

\* C19 witness: a SubAck whose count byte arrived as 0 ahead of the two
\* code bytes 0x80 and 0x01: no code is decoded
C19_Witness ==
    /\ pc = "decoded"
    /\ via = "corrupted"
    /\ Framed(6, 3)
    /\ buf[1] = 7
    /\ SubSeq(buf, 5, 7) = <<0, 128, 1>>
    /\ result.kind = "Ok"
    /\ result.val.packet.return_codes = <<>>


\* a length-prefixed field at offset o of payload p: whether it lies inside
\* p, and the end offset it needs (that of its length prefix when even the
\* prefix does not fit)
FieldEnd(p, o) ==
    IF Len(p) < o + 2 THEN [fits |-> FALSE, need |-> o + 2]
    ELSE LET e == o + 2 + FromBE(p[o + 1], p[o + 2])
         IN  [fits |-> Len(p) >= e, need |-> e]

\* a field that is not there: nothing to read at offset o
NoField(o) == [fits |-> TRUE, need |-> o]

\* C20: Connect decode rejects a too-short payload at the first field that
\* cannot be read. With p the payload of a Connect frame and n its length,
\* the declared frame length minus 4: n < 3 fails with
\* BufferTooShort{3, n}; otherwise the first of client_id, username (flag
\* bit 7) and password (flag bit 6) that runs past p fails with
\* BufferTooShort{e, n}, e being the end offset within p that the field
\* needs; a string field that lies inside p and is not text fails with
\* InvalidUtf8 before any later field is looked at; and a payload whose
\* fields all lie inside it decodes.  Bytes the receive buffer holds past
\* the declared length change nothing.
C20_ConnectTooShort ==
    (pc = "decoded" /\ Framed(1, 0)) =>
        LET p == SubSeq(buf, HEADER_LEN + 1, buf[1])
            n == buf[1] - HEADER_LEN
        IN  IF n < 3 THEN result = Err(BufferTooShort(3, n))
            ELSE
            LET c == FieldEnd(p, 3)
            IN  IF ~c.fits THEN result = Err(BufferTooShort(c.need, n))
                ELSE IF ~IsUtf8(SubSeq(p, 6, c.need)) THEN result = Err(InvalidUtf8)
                ELSE
                LET u == IF BitSet(p[1], 7) THEN FieldEnd(p, c.need)
                         ELSE NoField(c.need)
                IN  IF ~u.fits THEN result = Err(BufferTooShort(u.need, n))
                    ELSE IF BitSet(p[1], 7) /\ ~IsUtf8(SubSeq(p, c.need + 3, u.need))
                    THEN result = Err(InvalidUtf8)
                    ELSE
                    LET w == IF BitSet(p[1], 6) THEN FieldEnd(p, u.need)
                             ELSE NoField(u.need)
                    IN  IF ~w.fits THEN result = Err(BufferTooShort(w.need, n))
                        ELSE /\ result.kind = "Ok"
                             /\ result.val.packet.type = "Connect"

\* C20 witness: a Connect datagram that declares 7 bytes and holds more:
\* the payload is 3 bytes, the client_id prefix needs 5, and the bytes
\* past the declared length are not counted
C20_Witness ==
    /\ pc = "decoded"
    /\ Framed(1, 3)
    /\ buf[1] = 7
    /\ Len(buf) > buf[1]
    /\ result = Err(BufferTooShort(5, 3))


\* the error kinds a decode path produces
ReachableErrorTags == {"BufferTooShort", "InvalidMessageType", "InvalidQoS",
                       "InvalidReturnCode", "InvalidUtf8"}

\* C21: reachable error set. Every error UdpFrame::decode returns, for any
\* buffer, is a BufferTooShort, InvalidMessageType, InvalidQoS,
\* InvalidReturnCode or InvalidUtf8; no decode path produces
\* PayloadTooLarge or MalformedPacket.
C21_ErrorSet ==
    (pc = "decoded" /\ result.kind = "Err") =>
        /\ result.err.tag \in ReachableErrorTags
        /\ result.err # PayloadTooLarge
        /\ result.err.tag # MalformedPacket("").tag

\* C21 witness: a decode that returned InvalidReturnCode
C21_Witness ==
    /\ pc = "decoded"
    /\ result.kind = "Err"
    /\ result.err.tag = "InvalidReturnCode"


\* C22: bounded round trip for all nine kinds. For every frame of any
\* kind, ConnAck and SubAck included, whose total encoded length
\* 4 + encoded_len() is at most 255, decoding the bytes encode produced
\* returns Ok of an equal frame, and encoding that decoded frame yields the
\* same bytes again.
C22_BoundedRoundTrip ==
    (Untouched /\ HEADER_LEN + packet_payload_len(frame[1]) <= 255) =>
        /\ result = Ok(frame[1])
        /\ UdpFrame_encode(result.val) = buf

\* C22 witness: a SubAck of two different codes that came back equal and
\* encodes to the bytes received
C22_Witness ==
    /\ Untouched
    /\ frame[1].packet.type = "SubAck"
    /\ Len(frame[1].packet.return_codes) = 2
    /\ frame[1].packet.return_codes[1] # frame[1].packet.return_codes[2]
    /\ result = Ok(frame[1])
    /\ UdpFrame_encode(result.val) = buf


\* the bytes that agree with x on every bit of the set bits
SameBits(x, bits) ==
    {m \in 0..255 : \A i \in bits : BitSet(m, i) <=> BitSet(x, i)}

\* the received datagram with the byte at index i replaced by x
BufWith(i, x) == [buf EXCEPT ![i] = x]

\* C23: uninterpreted input bits do not affect the decoded value. The
\* result of decoding a Connect does not depend on flag bits 0 and 2-5,
\* that of a Publish not on flag bits 3-7; a ConnAck decodes every
\* non-zero session byte to session_present = true; and a PubAck, PingReq,
\* PingResp or Disconnect decodes whatever its payload holds.  So
\* different datagrams decode to equal frames.
C23_UninterpretedBits ==
    pc = "decoded" =>
        /\ Framed(1, 1) =>
               \A m \in SameBits(buf[5], {1, 6, 7}) :
                   UdpFrame_decode(BufWith(5, m)) = result
        /\ Framed(3, 1) =>
               \A m \in SameBits(buf[5], {0, 1, 2}) :
                   UdpFrame_decode(BufWith(5, m)) = result
        /\ (Framed(2, 2) /\ buf[5] # 0) =>
               /\ \A x \in 1..255 : UdpFrame_decode(BufWith(5, x)) = result
               /\ result.kind = "Ok" => result.val.packet.session_present
        /\ (Framed(4, 0) \/ Framed(7, 0) \/ Framed(8, 0) \/ Framed(9, 0)) =>
               result = Ok(UdpFrame_new(FromBE(buf[3], buf[4]),
                                        [type |-> KindOfByte[buf[2]]]))

\* C23 witness: a Connect whose flags byte arrived with bit 0 set decodes
\* to the frame that was sent, and encoding that frame does not give the
\* bytes received
C23_Witness ==
    /\ pc = "decoded"
    /\ via = "corrupted"
    /\ Framed(1, 1)
    /\ buf[5] # sent[1][5]
    /\ BitSet(buf[5], 0)
    /\ result = Ok(frame[1])
    /\ UdpFrame_encode(result.val) # buf


\* the events among es that answer a Send
Responses(es) == SelectSeq(es, LAMBDA e : e.n > 0)

\* the event a taken Send is to be answered with
Expected(t) == NetEvent(IF t.parsed /\ t.sock_ok THEN "Sent" ELSE "Error", t.n)

UiStopped == ui_pc \in {"done", "aborted"}

\* the ways run_network_thread returns
NetExits == {"shutdown", "cmd_disconnected", "evt_closed", "setup"}

=============================================================================
